---- MODULE Spec2Model ----
(***************************************************************************)
(* Model of convertidor.py: a straight-line script that reads one table    *)
(* (CSV or XLSX, chosen by the extension of archivo_entrada), rewrites the *)
(* Fecha_Compra column as %Y-%m-%d text, and dumps the rows plus a         *)
(* metadata block as JSON to archivo_salida.  Everything after the first   *)
(* print runs inside one try block with three except handlers.             *)
(*                                                                         *)
(* Text is modelled as a sequence of one-character strings, so that the    *)
(* extension split and the date parsing / formatting are computed.         *)
(***************************************************************************)
EXTENDS Integers, Sequences, FiniteSets, TLC

\* ------------------------------------------------------------------ bounds
\* Largest number of data rows of an input table.
MaxRows == 2
\* Number of times the operator launches the script in one behaviour.
MaxRuns == 2

\* -------------------------------------------------------------------- text
Digits == <<"0", "1", "2", "3", "4", "5", "6", "7", "8", "9">>

IsDigit(c) == \E i \in 1..Len(Digits) : Digits[i] = c

DigitVal(c) == (CHOOSE i \in 1..Len(Digits) : Digits[i] = c) - 1

DigitChar(n) == Digits[n + 1]

\* Python str.rfind, 1-based; 0 when the character does not occur.
RFind(p, c) ==
    LET hits == {i \in 1..Len(p) : p[i] = c}
    IN  IF hits = {} THEN 0 ELSE CHOOSE i \in hits : \A j \in hits : j <= i

\* Variant: the extension is whatever follows the last dot of the path.
splitext_last_dot(p) ==
    LET dotIndex == RFind(p, ".")
    IN  IF dotIndex > 0
        THEN <<SubSeq(p, 1, dotIndex - 1), SubSeq(p, dotIndex, Len(p))>>
        ELSE <<p, <<>>>>

\* os.path.splitext (line 23): the extension starts at the last dot of the
\* last path component; leading dots of that component do not count.
splitext(p) ==
    LET sepIndex == RFind(p, "/")
        dotIndex == RFind(p, ".")
    IN  IF /\ dotIndex > sepIndex
           /\ \E k \in (sepIndex + 1)..(dotIndex - 1) : p[k] # "."
        THEN <<SubSeq(p, 1, dotIndex - 1), SubSeq(p, dotIndex, Len(p))>>
        ELSE <<p, <<>>>>

ext_xlsx == <<".", "x", "l", "s", "x">>
ext_csv == <<".", "c", "s", "v">>

\* The values archivo_entrada (line 11) is given by the operator.
path_csv == <<"d", ".", "c", "s", "v">>
path_xlsx == <<"d", ".", "x", "l", "s", "x">>
path_txt == <<"f", "o", "o", ".", "t", "x", "t">>
path_CSV == <<"d", ".", "C", "S", "V">>
path_noext == <<"d", "a", "t", "a">>
path_dotfile == <<".", "c", "s", "v">>

InputPaths == {path_csv, path_xlsx, path_txt, path_CSV, path_noext, path_dotfile}

\* ------------------------------------------------------------- table cells
\* A cell is a scalar with its type; its content is kept as text.  pandas
\* represents an empty cell (and a missing date turned to text) as float NaN.
StrCell(chars) == [type |-> "str", val |-> chars]
IntCell(chars) == [type |-> "int", val |-> chars]
NaN == [type |-> "float", val |-> <<"N", "a", "N">>]

txt_Pena == <<"P", "e", "n", "a">>
txt_mdy == <<"0", "3", "/", "1", "5", "/", "2", "0", "2", "4">>
txt_ymd == <<"2", "0", "2", "3", "-", "1", "2", "-", "0", "1">>
txt_abc == <<"a", "b", "c">>

\* The column literally named in lines 39 and 42.
Fecha_Compra == "Fecha_Compra"
Nombre == "Nombre"

NombreValues == {StrCell(txt_Pena), IntCell(<<"7">>)}
FechaValues == {NaN, StrCell(txt_mdy), StrCell(txt_ymd), StrCell(txt_abc)}

ColumnValues(c) == IF c = Fecha_Compra THEN FechaValues ELSE NombreValues

ColumnSets == {{Nombre}, {Nombre, Fecha_Compra}}

RowsOver(cols) ==
    {r \in [cols -> NombreValues \cup FechaValues] :
        \A c \in cols : r[c] \in ColumnValues(c)}

\* A table: its header and its data rows, in file order.
TablesOver(cols) ==
    UNION {[columns : {cols}, rows : [1..n -> RowsOver(cols)]] : n \in 0..MaxRows}

Tables == UNION {TablesOver(cols) : cols \in ColumnSets}

\* ------------------------------------------------------------------- dates
\* A parsed date (pandas Timestamp); nat marks NaT, the missing date.
Timestamp(y, m, d) == [nat |-> FALSE, y |-> y, m |-> m, d |-> d]
NaT == [nat |-> TRUE, y |-> 0, m |-> 0, d |-> 0]

Num2(s, i) == 10 * DigitVal(s[i]) + DigitVal(s[i + 1])

Num4(s, i) == 100 * Num2(s, i) + Num2(s, i + 2)

AllDigits(s, idx) == \A i \in idx : IsDigit(s[i])

\* Text of the form MM/DD/YYYY naming a month and a day.
IsMDY(s) ==
    /\ Len(s) = 10
    /\ s[3] = "/" /\ s[6] = "/"
    /\ AllDigits(s, {1, 2, 4, 5, 7, 8, 9, 10})
    /\ Num2(s, 1) \in 1..12
    /\ Num2(s, 4) \in 1..31

\* Text of the form YYYY-MM-DD naming a month and a day.
IsYMD(s) ==
    /\ Len(s) = 10
    /\ s[5] = "-" /\ s[8] = "-"
    /\ AllDigits(s, {1, 2, 3, 4, 6, 7, 9, 10})
    /\ Num2(s, 6) \in 1..12
    /\ Num2(s, 9) \in 1..31

\* Whether pd.to_datetime (line 42) accepts the cell.
Parseable(v) ==
    \/ v = NaN
    \/ v.type = "str" /\ (IsMDY(v.val) \/ IsYMD(v.val))

\* pd.to_datetime (line 42) on one accepted cell.
to_datetime(v) ==
    IF v = NaN THEN NaT
    ELSE IF IsMDY(v.val)
         THEN Timestamp(Num4(v.val, 7), Num2(v.val, 1), Num2(v.val, 4))
         ELSE Timestamp(Num4(v.val, 1), Num2(v.val, 6), Num2(v.val, 9))

Pad2(n) == <<DigitChar(n \div 10), DigitChar(n % 10)>>

Pad4(n) == Pad2(n \div 100) \o Pad2(n % 100)

\* Variant: the day-first format '%d-%m-%Y'.
strftime_dmy(t) ==
    IF t.nat THEN NaN
    ELSE StrCell(Pad2(t.d) \o <<"-">> \o Pad2(t.m) \o <<"-">> \o Pad4(t.y))

\* .dt.strftime('%Y-%m-%d') (line 42): NaT has no text and yields NaN.
strftime(t) ==
    IF t.nat THEN NaN
    ELSE StrCell(Pad4(t.y) \o <<"-">> \o Pad2(t.m) \o <<"-">> \o Pad2(t.d))

\* Variant: the table is also put in reverse row order.
NormalizeFecha_reversed(df) ==
    [df EXCEPT !.rows =
        [i \in DOMAIN df.rows |->
            [df.rows[Len(df.rows) + 1 - i] EXCEPT
                ![Fecha_Compra] = strftime(to_datetime(@))]]]

\* Line 42 on the whole table: the column is replaced, the rest is kept.
NormalizeFecha(df) ==
    [df EXCEPT !.rows =
        [i \in DOMAIN df.rows |->
            [df.rows[i] EXCEPT ![Fecha_Compra] = strftime(to_datetime(@))]]]

FechaParseable(df) ==
    \A i \in DOMAIN df.rows : Parseable(df.rows[i][Fecha_Compra])

\* ---------------------------------------------------------- files and JSON
NoTable == [columns |-> {}, rows |-> <<>>]

\* The input file on disk: absent, not readable by this user, not parseable
\* in its format, or holding a table.
InputFiles ==
    {[st |-> x, tab |-> NoTable] : x \in {"missing", "unreadable", "malformed"}}
        \cup {[st |-> "ok", tab |-> t] : t \in Tables}

NoMetadata ==
    [fuente_original |-> <<>>, fecha_conversion |-> 0, registros_procesados |-> 0]

NoDoc == [metadata |-> NoMetadata, datos |-> <<>>]

\* A document left in archivo_salida (line 13) by an earlier conversion.
OldDoc ==
    [metadata |-> [fuente_original |-> <<"o", ".", "c", "s", "v">>,
                   fecha_conversion |-> 0,
                   registros_procesados |-> 1],
     datos |-> <<[r \in {Nombre} |-> StrCell(txt_Pena)]>>]

\* The output file on disk: absent, opened for writing and not (fully)
\* written, or holding a whole document.
OutputFiles ==
    {[st |-> "absent", doc |-> NoDoc], [st |-> "complete", doc |-> OldDoc]}

\* Variant: the first data row is taken for a second header and skipped.
to_dict_skip_first(df) == SubSeq(df.rows, 2, Len(df.rows))

\* df.to_dict(orient='records') (line 46): one mapping per row, in row order.
to_dict(df) == df.rows

\* Lines 49-53.
Metadata(entrada_path, ahora, datos) ==
    [fuente_original |-> entrada_path,
     fecha_conversion |-> ahora,
     registros_procesados |-> Len(datos)]

\* Lines 56-59.
JsonFinal(meta, datos) == [metadata |-> meta, datos |-> datos]

\* ------------------------------------------------------------- exceptions
\* The exception classes the run can raise, and Python's isinstance on them:
\* pandas' ParserError and its date parse error derive from ValueError,
\* FileNotFoundError and PermissionError derive from OSError.
IsInstance(e, cls) ==
    \/ e = cls
    \/ cls = "ValueError" /\ e \in {"ParserError", "DateParseError"}
    \/ cls = "OSError" /\ e \in {"FileNotFoundError", "PermissionError"}
    \/ cls = "Exception"

\* Variant: the except FileNotFoundError clause is missing.
Handler_no_fnf(e) ==
    IF IsInstance(e, "ValueError") THEN "Formato" ELSE "Inesperado"

\* The except clauses of lines 75-83, tried in order.
Handler(e) ==
    IF IsInstance(e, "FileNotFoundError") THEN "NoEncontrado"
    ELSE IF IsInstance(e, "ValueError") THEN "Formato"
    ELSE "Inesperado"

\* ------------------------------------------------------------------- state
VARIABLES
    archivo_entrada,  \* line 11: the input path
    entrada,          \* the input file on disk
    salida,           \* the file at archivo_salida on disk
    ahora,            \* the wall clock read by datetime.now()
    run,              \* how many times the script has been launched
    pc,               \* position in the script
    extension,        \* line 23
    df,               \* lines 28 / 33 / 42
    datos_extraidos,  \* line 46
    metadata,         \* line 49
    json_final,       \* line 56
    f_abierto,        \* whether the handle f of line 63 is open
    console,          \* the lines printed by this run, in order
    exc,              \* the exception raised in the try block, if any
    exit_status,      \* the status of the finished process, -1 while running
    leido,            \* history: a read_excel / read_csv call was made
    tabla_leida,      \* history: the table as the loader returned it
    salida_inicio,    \* history: salida when this run started
    anterior          \* history: whether the previous run succeeded, and on which table

env == <<archivo_entrada, entrada, salida, ahora, run>>
prog == <<pc, extension, df, datos_extraidos, metadata, json_final, f_abierto,
          console, exc, exit_status>>
hist == <<leido, tabla_leida, salida_inicio, anterior>>
vars == <<env, prog, hist>>

NoAnterior == [ok |-> FALSE, tab |-> NoTable]

\* The state of a freshly started process.
Fresh ==
    /\ pc = "print_start"
    /\ extension = <<>>
    /\ df = NoTable
    /\ datos_extraidos = <<>>
    /\ metadata = NoMetadata
    /\ json_final = NoDoc
    /\ f_abierto = FALSE
    /\ console = <<>>
    /\ exc = "None"
    /\ exit_status = -1
    /\ leido = FALSE
    /\ tabla_leida = NoTable

Init ==
    /\ archivo_entrada \in InputPaths
    /\ entrada \in InputFiles
    /\ salida \in OutputFiles
    /\ ahora = 1
    /\ run = 1
    /\ Fresh
    /\ salida_inicio = salida
    /\ anterior = NoAnterior

\* Control leaves the try block with exception e (the with block, if
\* entered, has already released f).
Raise(e) ==
    /\ exc' = e
    /\ pc' = "except"

\* Line 17.
PrintStart ==
    /\ pc = "print_start"
    /\ console' = Append(console, "Iniciando")
    /\ pc' = "splitext"
    /\ UNCHANGED <<env, hist, extension, df, datos_extraidos, metadata,
                   json_final, f_abierto, exc, exit_status>>

\* Line 23.
SplitExt ==
    /\ pc = "splitext"
    /\ extension' = splitext(archivo_entrada)[2]
    /\ pc' = "dispatch"
    /\ UNCHANGED <<env, hist, df, datos_extraidos, metadata, json_final,
                   f_abierto, console, exc, exit_status>>

\* What the loader raises on the file, "None" when it returns a table.
\* The file is opened first; parsing comes after.
LoadError(kind, file) ==
    CASE file.st = "missing" -> "FileNotFoundError"
      [] file.st = "unreadable" -> "PermissionError"
      [] file.st = "malformed" -> IF kind = "csv" THEN "ParserError" ELSE "BadZipFile"
      [] OTHER -> "None"

\* pd.read_excel / pd.read_csv: the loader's own handle on the input is
\* released before the call returns or raises.
Load(kind) ==
    /\ leido' = TRUE
    /\ IF LoadError(kind, entrada) = "None"
       THEN /\ df' = entrada.tab
            /\ tabla_leida' = entrada.tab
            /\ pc' = "normalize"
            /\ UNCHANGED exc
       ELSE /\ Raise(LoadError(kind, entrada))
            /\ UNCHANGED <<df, tabla_leida>>
    /\ UNCHANGED <<env, salida_inicio, anterior, extension, datos_extraidos,
                   metadata, json_final, f_abierto, console, exit_status>>

\* Lines 26-28.
ReadExcel ==
    /\ pc = "dispatch"
    /\ extension = ext_xlsx
    /\ Load("xlsx")

\* Lines 29-33.
ReadCsv ==
    /\ pc = "dispatch"
    /\ extension # ext_xlsx
    /\ extension = ext_csv
    /\ Load("csv")

\* Lines 34-36.
RaiseFormato ==
    /\ pc = "dispatch"
    /\ extension # ext_xlsx
    /\ extension # ext_csv
    /\ Raise("ValueError")
    /\ UNCHANGED <<env, hist, extension, df, datos_extraidos, metadata,
                   json_final, f_abierto, console, exit_status>>

\* Lines 39-42: only a table with a Fecha_Compra column is touched; one
\* value pd.to_datetime rejects raises out of the try block.
Normalize ==
    /\ pc = "normalize"
    /\ IF Fecha_Compra \in df.columns
       THEN IF FechaParseable(df)
            THEN /\ df' = NormalizeFecha(df)
                 /\ pc' = "to_dict"
                 /\ UNCHANGED exc
            ELSE /\ Raise("DateParseError")
                 /\ UNCHANGED df
       ELSE /\ pc' = "to_dict"
            /\ UNCHANGED <<df, exc>>
    /\ UNCHANGED <<env, hist, extension, datos_extraidos, metadata, json_final,
                   f_abierto, console, exit_status>>

\* Variant: the record count is added to the count of the document already
\* in the output file.
Assemble_acumulado ==
    /\ pc = "to_dict"
    /\ datos_extraidos' = to_dict(df)
    /\ metadata' =
          [Metadata(archivo_entrada, ahora, datos_extraidos') EXCEPT
              !.registros_procesados = @ + salida.doc.metadata.registros_procesados]
    /\ json_final' = JsonFinal(metadata', datos_extraidos')
    /\ pc' = "open"
    /\ UNCHANGED <<env, hist, extension, df, f_abierto, console, exc,
                   exit_status>>

\* Lines 46-59.
Assemble ==
    /\ pc = "to_dict"
    /\ datos_extraidos' = to_dict(df)
    /\ metadata' = Metadata(archivo_entrada, ahora, datos_extraidos')
    /\ json_final' = JsonFinal(metadata', datos_extraidos')
    /\ pc' = "open"
    /\ UNCHANGED <<env, hist, extension, df, f_abierto, console, exc,
                   exit_status>>

\* Line 63: mode 'w' creates the file or truncates the one that is there.
OpenSalida ==
    /\ pc = "open"
    /\ salida' = [st |-> "partial", doc |-> NoDoc]
    /\ f_abierto' = TRUE
    /\ pc' = "dump"
    /\ UNCHANGED <<archivo_entrada, entrada, ahora, run, hist, extension, df,
                   datos_extraidos, metadata, json_final, console, exc,
                   exit_status>>

\* Line 63 when the output path may not be written by this user.
OpenSalidaFails ==
    /\ pc = "open"
    /\ Raise("PermissionError")
    /\ UNCHANGED <<env, hist, extension, df, datos_extraidos, metadata,
                   json_final, f_abierto, console, exit_status>>

\* Line 67.
Dump ==
    /\ pc = "dump"
    /\ f_abierto
    /\ salida' = [st |-> "complete", doc |-> json_final]
    /\ pc' = "exit_with"
    /\ UNCHANGED <<archivo_entrada, entrada, ahora, run, hist, extension, df,
                   datos_extraidos, metadata, json_final, f_abierto, console,
                   exc, exit_status>>

\* Line 67 when the device fails mid-write: the with block releases f while
\* the exception leaves it, and the truncated file stays.
DumpFails ==
    /\ pc = "dump"
    /\ f_abierto
    /\ f_abierto' = FALSE
    /\ Raise("OSError")
    /\ UNCHANGED <<env, hist, extension, df, datos_extraidos, metadata,
                   json_final, console, exit_status>>

\* Variant: the file is opened without a with block and never closed.
CloseSalida_leak ==
    /\ pc = "exit_with"
    /\ pc' = "print_exito"
    /\ UNCHANGED <<env, hist, extension, df, datos_extraidos, metadata,
                   json_final, f_abierto, console, exc, exit_status>>

\* End of the with block of line 63.
CloseSalida ==
    /\ pc = "exit_with"
    /\ f_abierto' = FALSE
    /\ pc' = "print_exito"
    /\ UNCHANGED <<env, hist, extension, df, datos_extraidos, metadata,
                   json_final, console, exc, exit_status>>

\* Line 70.
PrintExito ==
    /\ pc = "print_exito"
    /\ console' = Append(console, "Exito")
    /\ pc' = "fin"
    /\ UNCHANGED <<env, hist, extension, df, datos_extraidos, metadata,
                   json_final, f_abierto, exc, exit_status>>

\* Variant: a handler that also removes the output file.
Except_cleanup ==
    /\ pc = "except"
    /\ console' = Append(console, Handler(exc))
    /\ salida' = [st |-> "absent", doc |-> NoDoc]
    /\ pc' = "fin"
    /\ UNCHANGED <<archivo_entrada, entrada, ahora, run, hist, extension, df,
                   datos_extraidos, metadata, json_final, f_abierto, exc,
                   exit_status>>

\* Lines 75-83: the first matching clause prints its line.
Except ==
    /\ pc = "except"
    /\ console' = Append(console, Handler(exc))
    /\ pc' = "fin"
    /\ UNCHANGED <<env, hist, extension, df, datos_extraidos, metadata,
                   json_final, f_abierto, exc, exit_status>>

\* The status the interpreter ends with after the last statement (line 70
\* or a handler's print): nothing in the script sets another one.
EndStatus == 0

\* The script has no statement left.
Exit ==
    /\ pc = "fin"
    /\ exit_status' = EndStatus
    /\ pc' = "done"
    /\ UNCHANGED <<env, hist, extension, df, datos_extraidos, metadata,
                   json_final, f_abierto, console, exc>>

Succeeded == Len(console) > 0 /\ console[Len(console)] = "Exito"

\* The operator launches the script again on the same paths.
Restart ==
    /\ pc = "done"
    /\ run < MaxRuns
    /\ run' = run + 1
    /\ ahora' = ahora + 1
    /\ anterior' = [ok |-> Succeeded, tab |-> tabla_leida]
    /\ salida_inicio' = salida
    /\ pc' = "print_start"
    /\ extension' = <<>>
    /\ df' = NoTable
    /\ datos_extraidos' = <<>>
    /\ metadata' = NoMetadata
    /\ json_final' = NoDoc
    /\ f_abierto' = FALSE
    /\ console' = <<>>
    /\ exc' = "None"
    /\ exit_status' = -1
    /\ leido' = FALSE
    /\ tabla_leida' = NoTable
    /\ UNCHANGED <<archivo_entrada, entrada, salida>>

\* Between two launches the operator deletes the input file.
BorrarEntrada ==
    /\ pc = "done"
    /\ run < MaxRuns
    /\ entrada.st # "missing"
    /\ entrada' = [st |-> "missing", tab |-> NoTable]
    /\ UNCHANGED <<archivo_entrada, salida, ahora, run, prog, hist>>

\* Between two launches the operator removes the last data row.
QuitarFila ==
    /\ pc = "done"
    /\ run < MaxRuns
    /\ entrada.st = "ok"
    /\ Len(entrada.tab.rows) > 0
    /\ entrada' = [entrada EXCEPT !.tab.rows = SubSeq(@, 1, Len(@) - 1)]
    /\ UNCHANGED <<archivo_entrada, salida, ahora, run, prog, hist>>

Next ==
    \/ PrintStart
    \/ SplitExt
    \/ ReadExcel
    \/ ReadCsv
    \/ RaiseFormato
    \/ Normalize
    \/ Assemble
    \/ OpenSalida
    \/ OpenSalidaFails
    \/ Dump
    \/ DumpFails
    \/ CloseSalida
    \/ PrintExito
    \/ Except
    \/ Exit
    \/ Restart
    \/ BorrarEntrada
    \/ QuitarFila

Spec == Init /\ [][Next]_vars

\* ------------------------------------------------------------- properties
\* The input paths whose extension is exactly .csv or .xlsx.
RecognizedPaths == {path_csv, path_xlsx}

\* The run has passed line 67: this run's document is in the output file.
Written ==
    \/ pc \in {"exit_with", "print_exito"}
    \/ pc \in {"fin", "done"} /\ Succeeded

\* The run is between launch and exit, so the input file is the one it read.
Running == pc # "done"

TerminalLines == {"Exito", "NoEncontrado", "Formato", "Inesperado"}

\* Text of the form YYYY-MM-DD: four digits, two digits, two digits.
CanonicalText(v) ==
    /\ v.type = "str"
    /\ Len(v.val) = 10
    /\ v.val[5] = "-" /\ v.val[8] = "-"
    /\ \A i \in {1, 2, 3, 4, 6, 7, 9, 10} : IsDigit(v.val[i])

\* C1: once a run on an input table with N data rows has written its
\* document, metadata.registros_procesados = N and datos has N elements.
C1_RowCount ==
    (Running /\ Written) =>
        /\ salida.doc.metadata.registros_procesados = Len(entrada.tab.rows)
        /\ Len(salida.doc.datos) = Len(entrada.tab.rows)

C1_Witness ==
    /\ Running /\ Written
    /\ Len(entrada.tab.rows) >= 2
    /\ salida.doc.metadata.registros_procesados = Len(entrada.tab.rows)

\* C2: a run on a loadable table whose Fecha_Compra column holds a value
\* that is no date ends with the 'Ocurrio un error inesperado' line.
C2_BadDateIsUnexpected ==
    ( /\ pc = "fin"
      /\ archivo_entrada \in RecognizedPaths
      /\ entrada.st = "ok"
      /\ Fecha_Compra \in entrada.tab.columns
      /\ \E i \in DOMAIN entrada.tab.rows :
            entrada.tab.rows[i][Fecha_Compra] = StrCell(txt_abc) )
    => console = <<"Iniciando", "Inesperado">>

\* C3: a finished process has success status exactly when its run
\* succeeded; every failing run ends with a non-zero status.
C3_FailureStatus ==
    pc = "done" => (exit_status = 0 <=> Succeeded)

\* C4: with an extension other than exactly .xlsx or .csv the run ends with
\* the format error line, never calls a loader, and leaves the output file
\* as it was.
C4_UnsupportedFormat ==
    archivo_entrada \notin RecognizedPaths =>
        /\ ~leido
        /\ salida = salida_inicio
        /\ pc \in {"fin", "done"} => console = <<"Iniciando", "Formato">>

C4_Witness ==
    /\ pc = "done"
    /\ archivo_entrada = path_CSV
    /\ console = <<"Iniciando", "Formato">>
    /\ salida.st = "complete"

\* C5: with a recognized extension and no file at the input path the run
\* ends with the not-found line and leaves the output file as it was.
C5_MissingInput ==
    (Running /\ archivo_entrada \in RecognizedPaths /\ entrada.st = "missing") =>
        /\ salida = salida_inicio
        /\ pc = "fin" => console = <<"Iniciando", "NoEncontrado">>

C5_Witness ==
    /\ pc = "fin"
    /\ archivo_entrada = path_xlsx
    /\ entrada.st = "missing"
    /\ leido
    /\ salida.st = "complete"

\* C6: until line 63 opens the output, and after any failure raised before
\* line 67, the output file is exactly what it was when the run started.
C6_OutputUntouched ==
    ( \/ pc \in {"print_start", "splitext", "dispatch", "normalize", "to_dict", "open"}
      \/ exc \notin {"None", "OSError"} )
    => salida = salida_inicio

\* A second run fails after a first one succeeded: the first run's document
\* is still there.
C6_Witness ==
    /\ pc = "done"
    /\ run = 2
    /\ anterior.ok
    /\ ~Succeeded
    /\ salida.st = "complete"
    /\ salida.doc.metadata.fecha_conversion = 1

\* C7 as stated: with a Fecha_Compra column, every row of a written
\* document holds YYYY-MM-DD text in it, empty source values included.
C7_AllRowsCanonical ==
    (Running /\ Written /\ Fecha_Compra \in entrada.tab.columns) =>
        \A i \in DOMAIN salida.doc.datos :
            CanonicalText(salida.doc.datos[i][Fecha_Compra])

\* C7 amended: with a Fecha_Compra column, a written row holds YYYY-MM-DD
\* text where the source value is not empty (03/15/2024 gives 2024-03-15)
\* and NaN where it is empty; without the column the rows are written as
\* loaded.
C7_NonNullCanonical ==
    (Running /\ Written) =>
        IF Fecha_Compra \in entrada.tab.columns
        THEN \A i \in DOMAIN salida.doc.datos :
                LET src == entrada.tab.rows[i][Fecha_Compra]
                    out == salida.doc.datos[i][Fecha_Compra]
                IN  /\ src = NaN => out = NaN
                    /\ src # NaN => CanonicalText(out)
                    /\ src = StrCell(txt_mdy) =>
                          out = StrCell(<<"2", "0", "2", "4", "-", "0", "3", "-", "1", "5">>)
        ELSE salida.doc.datos = entrada.tab.rows

C7_Witness ==
    /\ Running /\ Written
    /\ Fecha_Compra \in entrada.tab.columns
    /\ Len(entrada.tab.rows) = 2
    /\ entrada.tab.rows[1][Fecha_Compra] = NaN
    /\ entrada.tab.rows[2][Fecha_Compra] = StrCell(txt_mdy)

\* C8: every written row carries, for each column other than Fecha_Compra,
\* the loaded value of the same row and column; rows keep their order and
\* their columns.
C8_Passthrough ==
    (Running /\ Written) =>
        /\ DOMAIN salida.doc.datos = DOMAIN entrada.tab.rows
        /\ \A i \in DOMAIN entrada.tab.rows :
              /\ DOMAIN salida.doc.datos[i] = entrada.tab.columns
              /\ \A c \in entrada.tab.columns \ {Fecha_Compra} :
                    salida.doc.datos[i][c] = entrada.tab.rows[i][c]

C8_Witness ==
    /\ Running /\ Written
    /\ Fecha_Compra \in entrada.tab.columns
    /\ Len(entrada.tab.rows) = 2
    /\ entrada.tab.rows[1][Nombre] # entrada.tab.rows[2][Nombre]
    /\ entrada.tab.rows[1][Fecha_Compra] # entrada.tab.rows[2][Fecha_Compra]

\* C9: a run that follows a successful run on the same table overwrites
\* that run's document with one equal to it in datos, fuente_original and
\* registros_procesados.
C9_Idempotent ==
    (Written /\ anterior.ok /\ anterior.tab = tabla_leida) =>
        /\ salida.doc.datos = salida_inicio.doc.datos
        /\ salida.doc.metadata.fuente_original =
              salida_inicio.doc.metadata.fuente_original
        /\ salida.doc.metadata.registros_procesados =
              salida_inicio.doc.metadata.registros_procesados

C9_Witness ==
    /\ pc = "done"
    /\ Written /\ anterior.ok /\ anterior.tab = tabla_leida
    /\ Len(tabla_leida.rows) = 2
    /\ salida_inicio.st = "complete"
    /\ salida.doc.metadata.fecha_conversion #
          salida_inicio.doc.metadata.fecha_conversion

\* C10: the start line comes first, one terminal line follows and ends the
\* run; the success line is there only with the whole document in the
\* output file and its handle released; no run ends holding the handle.
C10_ConsoleAndHandle ==
    /\ Len(console) <= 2
    /\ Len(console) >= 1 => console[1] = "Iniciando"
    /\ Len(console) = 2 => console[2] \in TerminalLines /\ pc \in {"fin", "done"}
    /\ pc \in {"fin", "done"} => Len(console) = 2 /\ ~f_abierto
    /\ Succeeded => salida = [st |-> "complete", doc |-> json_final] /\ ~f_abierto

C10_Witness ==
    /\ pc = "done"
    /\ console = <<"Iniciando", "Exito">>
    /\ salida.st = "complete"
    /\ ~f_abierto

====
